---------------------------- MODULE Spec2Model ----------------------------
(***************************************************************************)
(* Random Universe Cipher, batch block encryption (src/wasm/src/lib.rs).   *)
(*                                                                         *)
(* The module models encrypt_blocks_batch / decrypt_blocks_batch and the   *)
(* functions they call.  Byte buffers passed as slices are sequences       *)
(* (index i of the code is element i+1); the fixed arrays of CipherState   *)
(* are functions over 0..n-1, indexed as in the code.                      *)
(*                                                                         *)
(* SHAKE256 (crate sha3) and the ChaCha20 generator (crate rand_chacha)    *)
(* are library code outside the repository.  Their sponge / block function *)
(* is represented by a small deterministic mixing function with the same   *)
(* interface: the output is a function of every input byte and of the      *)
(* input length, it has exactly the requested length, and a shorter output *)
(* is a prefix of a longer one.                                            *)
(*                                                                         *)
(* The build decides what `sel * 2` on u16 does when it overflows: a build *)
(* with overflow checks panics, one without wraps.  overflow_checks is     *)
(* chosen with the arguments.  Block numbers stay far below the range of   *)
(* usize, so start_block_number + block_idx never overflows here, and      *)
(* accumulator_sum stays far below 2^64.                                   *)
(***************************************************************************)
EXTENDS Integers, Sequences, FiniteSets, Bags, TLC

\* ------------------------------------------------------------ constants

BLOCK_SIZE == 32

ROUNDS == 24

REGISTER_COUNT == 7

REGISTER_SIZE == 64

ACCUMULATOR_SIZE == 128

SBOX_SIZE == 256

\* b"RUC-SELECTOR-PRIORITY-V1"
DOMAIN_PRIORITY ==
    <<82, 85, 67, 45, 83, 69, 76, 69, 67, 84, 79, 82, 45,
      80, 82, 73, 79, 82, 73, 84, 89, 45, 86, 49>>

\* b"RUC-KEYSTREAM-V1"
DOMAIN_KEYSTREAM ==
    <<82, 85, 67, 45, 75, 69, 89, 83, 84, 82, 69, 65, 77, 45, 86, 49>>

\* ------------------------------------------------------- byte arithmetic

Byte == 0..255

Min(a, b) == IF a <= b THEN a ELSE b

\* buf[i] of the code: slices are 0-indexed.
At(buf, i) == buf[i + 1]

\* &buf[from..to]
Slice(buf, from, to) == SubSeq(buf, from + 1, to)

\* vec![0u8; n]
Zeros(n) == [i \in 1..n |-> 0]

\* [0u8; n] as a fixed array
ZeroArray(n) == [i \in 0..(n - 1) |-> 0]

\* A freshly built array or table: the same function, held as a table of its
\* values instead of a rule evaluated at every access.
Tabulated(f) == f @@ f

RECURSIVE BitXor(_, _)
BitXor(a, b) ==
    IF a = 0 THEN b
    ELSE IF b = 0 THEN a
    ELSE ((a + b) % 2) + 2 * BitXor(a \div 2, b \div 2)

RECURSIVE BitOr(_, _)
BitOr(a, b) ==
    IF a = 0 THEN b
    ELSE IF b = 0 THEN a
    ELSE (IF (a % 2) + (b % 2) > 0 THEN 1 ELSE 0) + 2 * BitOr(a \div 2, b \div 2)

XorTable == Tabulated([a \in Byte |-> Tabulated([b \in Byte |-> BitXor(a, b)])])

\* a ^ b on u8
Xor(a, b) == XorTable[a][b]

\* x << n on u8 with n < 8: the bits shifted out are discarded.
Shl8(x, n) == (x * (2 ^ n)) % 256

\* x >> n on u8
Shr8(x, n) == x \div (2 ^ n)

\* u64::to_be_bytes of a block number (the model's block numbers are < 2^24)
to_be_bytes(block_number) ==
    <<0, 0, 0, 0, 0,
      (block_number \div 65536) % 256,
      (block_number \div 256) % 256,
      block_number % 256>>

\* u16::to_le_bytes
to_le_bytes(selector) == <<selector % 256, selector \div 256>>

\* ----------------------------------------------------- library primitives

\* Absorbing: a position-weighted sum of the input bytes (every byte and the
\* length change it), summed by halves to keep the evaluation shallow.
RECURSIVE AbsorbRange(_, _, _)
AbsorbRange(data, lo, hi) ==
    IF lo > hi THEN 0
    ELSE IF lo = hi THEN (data[lo] + 1) * (((lo * lo) % 251) + 1)
    ELSE LET mid == (lo + hi) \div 2
         IN  (AbsorbRange(data, lo, mid) + AbsorbRange(data, mid + 1, hi)) % 65521

Squeeze(h, k) == ((h + 1) * (k * k + 3 * k + 7) + (h \div 256) + k) % 256

shake256_hash(data, output_length) ==
    LET h == AbsorbRange(data, 1, Len(data))
    IN  [k \in 1..output_length |-> Squeeze(h, k - 1)]

\* The stream repeats the first 8 seed bytes, so that two selector positions
\* of equal parity draw the same 32-bit priority: equal priorities, which a
\* real ChaCha20 stream produces with probability 2^-32, are reachable.
chacha20_generate(seed, output_length) ==
    [k \in 1..output_length |-> seed[((k - 1) % 8) + 1]]

\* ------------------------------------------------------- GF(2^8), registers

RECURSIVE gf_mul_loop(_, _, _, _)
gf_mul_loop(result, a, b, n) ==
    IF n = 0 THEN result
    ELSE LET r2 == IF b % 2 # 0 THEN Xor(result, a) ELSE result
             hi_bit_set == a >= 128
             a2 == Shl8(a, 1)
             a3 == IF hi_bit_set THEN Xor(a2, 27) ELSE a2
         IN  gf_mul_loop(r2, a3, b \div 2, n - 1)

gf_mul_compute(a, b) == gf_mul_loop(0, a, b, 8)

\* gf_mul tabulated once for all byte pairs.
GfMulTable ==
    Tabulated([a \in Byte |-> Tabulated([b \in Byte |-> gf_mul_compute(a, b)])])

gf_mul(a, b) == GfMulTable[a][b]

gf_mul_register(reg, multiplier) ==
    Tabulated([i \in 0..(REGISTER_SIZE - 1) |-> gf_mul(reg[i], multiplier)])

rotate_left_512(reg, n) ==
    LET byte_shift == n \div 8
        bit_shift == n % 8
    IN  Tabulated([i \in 0..(REGISTER_SIZE - 1) |->
            LET src_idx == (i + byte_shift) % REGISTER_SIZE
                next_idx == (i + byte_shift + 1) % REGISTER_SIZE
                low == Shl8(reg[src_idx], bit_shift)
                high == IF bit_shift > 0
                        THEN Shr8(reg[next_idx], 8 - bit_shift)
                        ELSE 0
            IN  BitOr(low, high)])

xor_512(a, b) == Tabulated([i \in 0..(REGISTER_SIZE - 1) |-> Xor(a[i], b[i])])

\* The low 4 bytes of bytes_to_u64 (little-endian); the callers mask the
\* value with 0xFFFFFFFF, so the upper 4 bytes never matter.
bytes_to_u64(bytes) == <<bytes[0], bytes[1], bytes[2], bytes[3]>>


\* [u8; N] array -> the bytes appended by extend_from_slice
ArrayToSeq(arr, n) == [i \in 1..n |-> arr[i - 1]]

\* ------------------------------------------------------ selector ordering

\* u32::from_le_bytes as two 16-bit limbs <<high, low>>: the value itself
\* does not fit the model checker's integers.
u32_from_le_bytes(b0, b1, b2, b3) == <<b3 * 256 + b2, b1 * 256 + b0>>

U32Less(p, q) == p[1] < q[1] \/ (p[1] = q[1] /\ p[2] < q[2])

\* The (priority, index) pairs collected at lines 167-180.
PriorityPairs(selectors, random_bytes) ==
    [k \in 1..Len(selectors) |->
        LET offset == (k - 1) * 4
        IN  <<u32_from_le_bytes(At(random_bytes, offset),
                                At(random_bytes, offset + 1),
                                At(random_bytes, offset + 2),
                                At(random_bytes, offset + 3)),
              k - 1>>]

\* A faulty insertion that keeps one entry per priority: an entry whose
\* priority is already present is dropped (a map keyed by the priority).
RECURSIVE InsertByKeyDroppingTies(_, _)
InsertByKeyDroppingTies(sorted, x) ==
    IF sorted = << >> THEN <<x>>
    ELSE IF Head(sorted)[1] = x[1] THEN sorted
    ELSE IF U32Less(x[1], Head(sorted)[1]) THEN <<x>> \o sorted
    ELSE <<Head(sorted)>> \o InsertByKeyDroppingTies(Tail(sorted), x)

\* A faulty insertion that is not stable: x goes in front of the elements
\* whose key equals its own.
RECURSIVE InsertByKeyUnstable(_, _)
InsertByKeyUnstable(sorted, x) ==
    IF sorted = << >> THEN <<x>>
    ELSE IF ~U32Less(Head(sorted)[1], x[1]) THEN <<x>> \o sorted
    ELSE <<Head(sorted)>> \o InsertByKeyUnstable(Tail(sorted), x)

\* One insertion of the stable sort: x goes behind every element whose key
\* is not greater than its own.
RECURSIVE InsertByKey(_, _)
InsertByKey(sorted, x) ==
    IF sorted = << >> THEN <<x>>
    ELSE IF U32Less(x[1], Head(sorted)[1]) THEN <<x>> \o sorted
    ELSE <<Head(sorted)>> \o InsertByKey(Tail(sorted), x)

RECURSIVE sort_by_key_upto(_, _)
sort_by_key_upto(pairs, n) ==
    IF n = 0 THEN << >>
    ELSE InsertByKey(sort_by_key_upto(pairs, n - 1), pairs[n])

\* priorities.sort_by_key(|&(priority, _)| priority): a stable sort
sort_by_key(pairs) == sort_by_key_upto(pairs, Len(pairs))

\* The sorted `priorities` vector of order_selectors (line 183).
sorted_priorities(sels, k, v, block_number) ==
    LET seed_data == k \o v \o to_be_bytes(block_number) \o DOMAIN_PRIORITY
        seed_array == shake256_hash(seed_data, 32)
        random_bytes == chacha20_generate(seed_array, Len(sels) * 4)
    IN  sort_by_key(PriorityPairs(sels, random_bytes))

order_selectors(sels, k, v, block_number) ==
    LET sorted == sorted_priorities(sels, k, v, block_number)
    IN  [n \in 1..Len(sorted) |-> At(sels, sorted[n][2])]

\* Step 4 of encrypt_blocks_batch: one key constant per ordered selector.
KeyConstants(ordered, k) ==
    [n \in 1..Len(ordered) |-> shake256_hash(to_le_bytes(ordered[n]) \o k, 1)[1]]

\* --------------------------------------------------------------- CipherState

CipherState_new(kmr) ==
    [registers |->
        [i \in 0..(REGISTER_COUNT - 1) |->
            LET offset == i * REGISTER_SIZE
            IN  IF offset + REGISTER_SIZE <= Len(kmr)
                THEN [j \in 0..(REGISTER_SIZE - 1) |-> At(kmr, offset + j)]
                ELSE ZeroArray(REGISTER_SIZE)],
     accumulator |-> ZeroArray(ACCUMULATOR_SIZE),
     accumulator_sum |-> 0]

\* A faulty loop that builds the state once, before the loop: every block but
\* the first starts from what the previous block left behind.
HoistedBlockState(prev, idx, kmr) ==
    IF idx = 0 THEN CipherState_new(kmr) ELSE prev

\* Steps 1 and 2 of the loop body at iteration idx: the state the block starts
\* from.  `prev` is what the previous iteration left behind (its state with
\* the ciphertext feedback applied), which the code drops.
FreshBlockState(prev, idx, kmr) ==
    [CipherState_new(kmr) EXCEPT !.accumulator = ZeroArray(ACCUMULATOR_SIZE),
                                 !.accumulator_sum = 0]

\* A faulty keystream that hashes under the tag of the priority stream.
generate_keystream_wrong_tag(st, block_number) ==
    LET combined ==
            ArrayToSeq(st.registers[0], REGISTER_SIZE)
            \o ArrayToSeq(st.registers[1], REGISTER_SIZE)
            \o ArrayToSeq(st.registers[2], REGISTER_SIZE)
            \o ArrayToSeq(st.registers[3], REGISTER_SIZE)
            \o ArrayToSeq(st.registers[4], REGISTER_SIZE)
            \o ArrayToSeq(st.registers[5], REGISTER_SIZE)
            \o ArrayToSeq(st.registers[6], REGISTER_SIZE)
            \o ArrayToSeq(st.accumulator, ACCUMULATOR_SIZE)
            \o to_be_bytes(block_number)
            \o DOMAIN_PRIORITY
    IN  shake256_hash(combined, BLOCK_SIZE)

generate_keystream(st, block_number) ==
    LET combined ==
            ArrayToSeq(st.registers[0], REGISTER_SIZE)
            \o ArrayToSeq(st.registers[1], REGISTER_SIZE)
            \o ArrayToSeq(st.registers[2], REGISTER_SIZE)
            \o ArrayToSeq(st.registers[3], REGISTER_SIZE)
            \o ArrayToSeq(st.registers[4], REGISTER_SIZE)
            \o ArrayToSeq(st.registers[5], REGISTER_SIZE)
            \o ArrayToSeq(st.registers[6], REGISTER_SIZE)
            \o ArrayToSeq(st.accumulator, ACCUMULATOR_SIZE)
            \o to_be_bytes(block_number)
            \o DOMAIN_KEYSTREAM
    IN  shake256_hash(combined, BLOCK_SIZE)

\* A faulty feedback whose shift is reduced to the width of the byte, so that
\* registers 1..6 receive a shifted byte.
FeedbackByteShiftMod8(i, byte) ==
    LET feedback_shift == (i * 37) % 8
    IN  IF feedback_shift < 8 THEN Shl8(byte, feedback_shift) ELSE byte

\* The byte XOR-ed into registers[i][j] (lines 237-248).
FeedbackByte(i, byte) ==
    LET feedback_shift == (i * 37) % 256
    IN  IF feedback_shift < 8 THEN Shl8(byte, feedback_shift) ELSE byte

apply_ciphertext_feedback(st, ct) ==
    [st EXCEPT !.registers =
        [i \in 0..(REGISTER_COUNT - 1) |->
            [j \in 0..(REGISTER_SIZE - 1) |->
                Xor(st.registers[i][j], FeedbackByte(i, At(ct, j % BLOCK_SIZE)))]]]

\* ------------------------------------------------------------ round function

\* sel * 2 on u16 overflows for sel >= 32768: a build with overflow checks
\* (the dev profile) panics there, a build without them (release) wraps.
MulOverflows(sel) == sel * 2 > 65535

\* temp = (sel * 2) & 0xFFFF, when the multiplication has not panicked
Temp(sel) ==
    LET wrapped == (sel * 2) % 65536
    IN  wrapped % 65536

\* place_idx = ((r0 ^ sel ^ round_key) & 0xFFFFFFFF) % 7, taken limb-wise:
\* 2^8, 2^16 and 2^24 are 4, 2 and 1 modulo 7.
PlaceIdx(r0, sel, rk) ==
    LET b0 == Xor(Xor(r0[1], sel % 256), rk[1])
        b1 == Xor(Xor(r0[2], sel \div 256), rk[2])
        b2 == Xor(r0[3], rk[3])
        b3 == Xor(r0[4], rk[4])
    IN  (b0 + 4 * b1 + 2 * b2 + b3) % 7

\* The body of the selector loop (lines 317-368) for one selector.
ProcessSelector(st, sel_idx, sel, sbox, round_key, key_constants) ==
    LET regs == st.registers
        place_idx == PlaceIdx(bytes_to_u64(regs[0]), sel, bytes_to_u64(round_key))
        temp == Temp(sel)
        state_byte == regs[place_idx][0]
        gf0 == gf_mul(temp % 256, state_byte)
        gf_result == IF sel_idx < Len(key_constants)
                     THEN Xor(gf0, At(key_constants, sel_idx))
                     ELSE gf0
        result == At(sbox, gf_result)
        scaled == gf_mul_register(regs[place_idx], result)
        shift_amount == sel % 16
        shifted_bytes ==
            [ZeroArray(REGISTER_SIZE) EXCEPT
                ![0] = IF shift_amount < 8 THEN Shl8(result, shift_amount) ELSE 0]
        with_shift == xor_512(scaled, shifted_bytes)
        low_byte == with_shift[REGISTER_SIZE - 1]
        sbox_bytes ==
            [ZeroArray(REGISTER_SIZE) EXCEPT
                ![REGISTER_SIZE - 1] = At(sbox, low_byte)]
        with_sbox == xor_512(with_shift, sbox_bytes)
        rotated == rotate_left_512(with_sbox, 1)
        mixed == xor_512(rotated, regs[(place_idx + 1) % REGISTER_COUNT])
    IN  [st EXCEPT !.registers[place_idx] = mixed,
                   !.accumulator_sum = st.accumulator_sum + result]

RECURSIVE ProcessSelectors(_, _, _, _, _, _)
ProcessSelectors(st, sel_idx, sels, sbox, round_key, key_constants) ==
    IF sel_idx >= Len(sels) THEN st
    ELSE ProcessSelectors(
            ProcessSelector(st, sel_idx, At(sels, sel_idx), sbox, round_key,
                            key_constants),
            sel_idx + 1, sels, sbox, round_key, key_constants)

\* One iteration of the inter-round mixing loop (lines 371-380).
DiffuseStep(regs, i) ==
    LET first == [regs EXCEPT ![i] = xor_512(regs[i], regs[(i + 1) % REGISTER_COUNT])]
    IN  [first EXCEPT ![i] = xor_512(first[i], first[(i + 2) % REGISTER_COUNT])]

RECURSIVE DiffuseFrom(_, _)
DiffuseFrom(regs, i) ==
    IF i >= REGISTER_COUNT THEN regs
    ELSE DiffuseFrom(DiffuseStep(regs, i), i + 1)

\* A faulty mixing that XORs an unmutated snapshot of the registers.
SnapshotMixing(regs) ==
    [i \in 0..(REGISTER_COUNT - 1) |->
        xor_512(xor_512(regs[i], regs[(i + 1) % REGISTER_COUNT]),
                regs[(i + 2) % REGISTER_COUNT])]

InterRoundMixing(regs) == DiffuseFrom(regs, 0)

\* The early return of execute_round_wasm (line 306).
RoundIsNoOp(sbox, round_key_bytes) ==
    Len(round_key_bytes) < REGISTER_SIZE \/ Len(sbox) < SBOX_SIZE

\* Whether the call panics on the overflow of sel * 2.
RoundPanics(checks, sels, sbox, round_key_bytes) ==
    /\ checks
    /\ ~RoundIsNoOp(sbox, round_key_bytes)
    /\ \E n \in 1..Len(sels) : MulOverflows(sels[n])

\* The state of execute_round_wasm after its selector loop (line 368).
AfterSelectors(st, sels, sbox, round_key_bytes, key_constants) ==
    LET round_key == [j \in 0..(REGISTER_SIZE - 1) |-> At(round_key_bytes, j)]
    IN  ProcessSelectors(st, 0, sels, sbox, round_key, key_constants)

\* The state after the inter-round mixing loop (line 380).
AfterMixing(after) == [after EXCEPT !.registers = InterRoundMixing(after.registers)]

\* execute_round_wasm when it returns.
execute_round_wasm(st, sels, sbox, round_key_bytes, key_constants) ==
    IF RoundIsNoOp(sbox, round_key_bytes) THEN st
    ELSE AfterMixing(AfterSelectors(st, sels, sbox, round_key_bytes, key_constants))

\* ------------------------------------------------------------- block loop

num_blocks(len) == len \div BLOCK_SIZE

\* The loop runs for block_idx in 0..num_blocks and breaks on a block that
\* does not fit the input (lines 401-407).
LoopContinues(idx, len) ==
    /\ idx < num_blocks(len)
    /\ idx * BLOCK_SIZE + BLOCK_SIZE <= len

\* The guard at lines 434-435.
RoundInRange(r, sb, rks) ==
    /\ r * SBOX_SIZE + SBOX_SIZE <= Len(sb)
    /\ r * REGISTER_SIZE + REGISTER_SIZE <= Len(rks)

SboxOf(r, sb) == Slice(sb, r * SBOX_SIZE, r * SBOX_SIZE + SBOX_SIZE)

RoundKeyOf(r, rks) == Slice(rks, r * REGISTER_SIZE, r * REGISTER_SIZE + REGISTER_SIZE)

\* Step 7: ciphertext[i] = plaintext_block[i] ^ keystream[i]
XorBlock(plaintext_block, keystream) ==
    [i \in 1..BLOCK_SIZE |->
        IF i <= Min(BLOCK_SIZE, Len(plaintext_block))
        THEN Xor(plaintext_block[i], keystream[i])
        ELSE 0]

\* Vec::with_capacity(num_blocks * BLOCK_SIZE): an empty vector
NewOutput(len) == << >>

\* Step 5 as a whole: rounds r..ROUNDS-1 of one block, none of them panicking.
RECURSIVE RunRounds(_, _, _, _, _, _)
RunRounds(st, r, ordered, constants, sb, rks) ==
    IF r >= ROUNDS THEN st
    ELSE LET next == IF RoundInRange(r, sb, rks)
                     THEN execute_round_wasm(st, ordered, SboxOf(r, sb),
                                             RoundKeyOf(r, rks), constants)
                     ELSE st
         IN  \* round r is over before round r + 1 begins
             IF next.accumulator_sum >= 0
             THEN RunRounds(next, r + 1, ordered, constants, sb, rks)
             ELSE next

\* Whether some round of a block panics.
BlockPanics(checks, ordered, sb, rks) ==
    \E r \in 0..(ROUNDS - 1) :
        /\ RoundInRange(r, sb, rks)
        /\ RoundPanics(checks, ordered, SboxOf(r, sb), RoundKeyOf(r, rks))

\* One iteration of the block loop (lines 401-466) that does not panic: the
\* state it ends with and the ciphertext block it appends.
LoopBody(prev, input, idx, start, k, v, kmr, sels, sb, rks) ==
    LET number == start + idx
        offset == idx * BLOCK_SIZE
        ordered == order_selectors(sels, k, v, number)
        constants == KeyConstants(ordered, k)
        mixed == RunRounds(FreshBlockState(prev, idx, kmr), 0, ordered, constants,
                           sb, rks)
        keystream == generate_keystream(mixed, number)
        ct == XorBlock(Slice(input, offset, offset + BLOCK_SIZE), keystream)
    IN  [state |-> apply_ciphertext_feedback(mixed, ct), ciphertext |-> ct]

\* ------------------------------------------------------------------- state

VARIABLES
    \* the host's data and the build
    message, key, iv, start_block_number, key_material_registers,
    selectors, sboxes, round_keys, overflow_checks,
    \* the running call of encrypt_blocks_batch
    call, plaintext_blocks, pc, block_idx, round, state,
    priorities, ordered_selectors, key_constants,
    ciphertext, output, reads, encrypted,
    \* the registers as the inter-round mixing loop of the last executed round
    \* found them (after its selector loop)
    mixing_input,
    \* two workers encrypting the two parts of a split of the message
    par, w_input, w_start, w_idx, w_state, w_out, w_pc

args == <<message, key, iv, start_block_number, key_material_registers,
          selectors, sboxes, round_keys, overflow_checks>>

vars == <<message, key, iv, start_block_number, key_material_registers,
          selectors, sboxes, round_keys, overflow_checks,
          call, plaintext_blocks, pc, block_idx, round, state,
          priorities, ordered_selectors, key_constants,
          ciphertext, output, reads, encrypted, mixing_input,
          par, w_input, w_start, w_idx, w_state, w_out, w_pc>>

seq_vars == <<call, plaintext_blocks, pc, block_idx, round, state,
              priorities, ordered_selectors, key_constants,
              ciphertext, output, reads, encrypted, mixing_input>>

worker_vars == <<par, w_input, w_start, w_idx, w_state, w_out, w_pc>>

\* ------------------------------------------------------------------ inputs

MaxBlocks == 2

MaxStartBlock == 1

Message(n, fill) == [i \in 1..n |-> (fill * (3 * i + 1)) % 256]

MessageLengths ==
    {BLOCK_SIZE * b + t : b \in 0..MaxBlocks, t \in {0, 1}} \cup {BLOCK_SIZE - 1}

Pattern(n, mul, add) == [i \in 1..n |-> (mul * i + add) % 256]

KeyIvs == {<< << >>, << >> >>, << <<7, 200>>, <<9>> >>}

KeyMaterial(name) ==
    CASE name = "zero" -> Zeros(REGISTER_COUNT * REGISTER_SIZE)
      [] name = "full" -> Pattern(REGISTER_COUNT * REGISTER_SIZE, 37, 11)
      [] name = "short" -> Pattern(REGISTER_SIZE + 36, 5, 3)

SelectorLists == {<< >>, <<5, 300, 5, 12>>, <<40000, 9>>}

IdentitySboxes == [i \in 1..(ROUNDS * SBOX_SIZE) |-> (i - 1) % SBOX_SIZE]

AffineSboxes ==
    [i \in 1..(ROUNDS * SBOX_SIZE) |->
        (167 * ((i - 1) % SBOX_SIZE) + 13 + ((i - 1) \div SBOX_SIZE)) % 256]

\* "short": one byte is missing from the S-box of the last round.
SboxTable(name) ==
    CASE name = "identity" -> IdentitySboxes
      [] name = "full" -> AffineSboxes
      [] name = "short" -> SubSeq(AffineSboxes, 1, ROUNDS * SBOX_SIZE - 1)

\* "short": the keys of rounds 0 and 1 and 5 bytes more.
RoundKeyTable(name) ==
    CASE name = "zero" -> Zeros(ROUNDS * REGISTER_SIZE)
      [] name = "full" -> Pattern(ROUNDS * REGISTER_SIZE, 29, 1)
      [] name = "short" -> Pattern(2 * REGISTER_SIZE + 5, 29, 1)

Configs ==
    [len : MessageLengths, fill : {0, 1}, keyiv : KeyIvs,
     start : 0..MaxStartBlock, kmr : {"zero", "full", "short"},
     sels : SelectorLists, sb : {"identity", "full", "short"},
     rks : {"zero", "full", "short"}, checks : BOOLEAN]

Fields == {"len", "fill", "keyiv", "start", "kmr", "sels", "sb", "rks", "checks"}

Distance(c, d) == Cardinality({f \in Fields : c[f] # d[f]})

Typical ==
    [len |-> 2 * BLOCK_SIZE, fill |-> 1, keyiv |-> << <<7, 200>>, <<9>> >>,
     start |-> 0, kmr |-> "full", sels |-> <<5, 300, 5, 12>>, sb |-> "full",
     rks |-> "full", checks |-> FALSE]

\* The degenerate vector: zero key material, no selectors, one zero block.
Degenerate ==
    [len |-> BLOCK_SIZE, fill |-> 0, keyiv |-> << << >>, << >> >>,
     start |-> 0, kmr |-> "zero", sels |-> << >>, sb |-> "identity",
     rks |-> "zero", checks |-> FALSE]

\* The typical call in a build with overflow checks, a selector >= 32768.
Overflowing == [Typical EXCEPT !.sels = <<40000, 9>>, !.checks = TRUE]

\* A call with a trailing partial block, short key material and short tables
\* (rounds 0 and 1 are the only ones whose slices are in range).
Ragged ==
    [len |-> 2 * BLOCK_SIZE + 1, fill |-> 1, keyiv |-> << << >>, << >> >>,
     start |-> MaxStartBlock, kmr |-> "short", sels |-> <<5, 300, 5, 12>>,
     sb |-> "short", rks |-> "short", checks |-> TRUE]

Anchors == {Typical, Degenerate, Overflowing, Ragged}

\* Every input that differs from one of the four calls above in at most one
\* argument.
Inputs == {c \in Configs : \E a \in Anchors : Distance(c, a) <= 1}

\* The inputs of the split runs.
SplitInputs ==
    {c \in Configs : Distance(c, Typical) <= 1} \cup {Overflowing, Ragged}

InitWith(c) ==
    /\ message = Message(c.len, c.fill)
    /\ key = c.keyiv[1]
    /\ iv = c.keyiv[2]
    /\ start_block_number = c.start
    /\ key_material_registers = KeyMaterial(c.kmr)
    /\ selectors = c.sels
    /\ sboxes = SboxTable(c.sb)
    /\ round_keys = RoundKeyTable(c.rks)
    /\ overflow_checks = c.checks
    /\ call = "encrypt"
    /\ plaintext_blocks = Message(c.len, c.fill)
    /\ pc = "loop"
    /\ block_idx = 0
    /\ round = 0
    /\ state = CipherState_new(<< >>)
    /\ priorities = << >>
    /\ ordered_selectors = << >>
    /\ key_constants = << >>
    /\ ciphertext = << >>
    /\ output = NewOutput(c.len)
    /\ reads = {}
    /\ encrypted = << >>
    /\ mixing_input = CipherState_new(<< >>).registers
    /\ par = "idle"
    /\ w_input = << << >>, << >> >>
    /\ w_start = <<0, 0>>
    /\ w_idx = <<0, 0>>
    /\ w_state = <<CipherState_new(<< >>), CipherState_new(<< >>)>>
    /\ w_out = << << >>, << >> >>
    /\ w_pc = <<"idle", "idle">>

Init == \E c \in Inputs : InitWith(c)

\* ----------------------------------------------------------------- actions

block_number == start_block_number + block_idx

block_offset == block_idx * BLOCK_SIZE

\* Steps 1-4: fresh state, ordered selectors, key constants.
BlockStart ==
    /\ pc = "loop"
    /\ LoopContinues(block_idx, Len(plaintext_blocks))
    /\ state' = FreshBlockState(state, block_idx, key_material_registers)
    /\ priorities' = sorted_priorities(selectors, key, iv, block_number)
    /\ ordered_selectors' = order_selectors(selectors, key, iv, block_number)
    /\ key_constants' = KeyConstants(ordered_selectors', key)
    /\ round' = 0
    /\ pc' = "rounds"
    /\ UNCHANGED <<args, worker_vars, mixing_input, call, plaintext_blocks, block_idx, ciphertext, output,
                   reads, encrypted>>

\* Step 5, a round whose tables are in range and that returns.
RoundExecute ==
    /\ pc = "rounds"
    /\ round < ROUNDS
    /\ RoundInRange(round, sboxes, round_keys)
    /\ ~RoundPanics(overflow_checks, ordered_selectors,
                    SboxOf(round, sboxes), RoundKeyOf(round, round_keys))
    /\ LET sbox == SboxOf(round, sboxes)
           round_key == RoundKeyOf(round, round_keys)
       IN  IF RoundIsNoOp(sbox, round_key)
           THEN UNCHANGED <<state, mixing_input>>
           ELSE \E after \in {AfterSelectors(state, ordered_selectors, sbox,
                                              round_key, key_constants)} :
                    /\ mixing_input' = after.registers
                    /\ state' = AfterMixing(after)
    /\ round' = round + 1
    /\ UNCHANGED <<args, worker_vars, call, plaintext_blocks, pc, block_idx,
                   priorities, ordered_selectors, key_constants, ciphertext,
                   output, reads, encrypted>>

\* Step 5, a round that panics on the overflow of sel * 2: the call unwinds.
RoundPanic ==
    /\ pc = "rounds"
    /\ round < ROUNDS
    /\ RoundInRange(round, sboxes, round_keys)
    /\ RoundPanics(overflow_checks, ordered_selectors,
                   SboxOf(round, sboxes), RoundKeyOf(round, round_keys))
    /\ pc' = "panicked"
    /\ UNCHANGED <<args, worker_vars, mixing_input, call, plaintext_blocks, block_idx, round, state,
                   priorities, ordered_selectors, key_constants, ciphertext,
                   output, reads, encrypted>>

\* Step 5, a round whose table slices are not inside the buffers.
RoundSkip ==
    /\ pc = "rounds"
    /\ round < ROUNDS
    /\ ~RoundInRange(round, sboxes, round_keys)
    /\ round' = round + 1
    /\ UNCHANGED <<args, worker_vars, mixing_input, call, plaintext_blocks, pc, block_idx, state, priorities,
                   ordered_selectors, key_constants, ciphertext, output, reads,
                   encrypted>>

\* Steps 6-8 and the append.
FinishBlock ==
    /\ pc = "rounds"
    /\ round = ROUNDS
    /\ LET keystream == generate_keystream(state, block_number)
           plaintext_block ==
               Slice(plaintext_blocks, block_offset, block_offset + BLOCK_SIZE)
       IN  ciphertext' = XorBlock(plaintext_block, keystream)
    /\ state' = apply_ciphertext_feedback(state, ciphertext')
    /\ output' = output \o ciphertext'
    /\ reads' = reads \cup (block_offset..(block_offset + BLOCK_SIZE - 1))
    /\ block_idx' = block_idx + 1
    /\ pc' = "loop"
    /\ UNCHANGED <<args, worker_vars, mixing_input, call, plaintext_blocks, round, priorities,
                   ordered_selectors, key_constants, encrypted>>

\* The loop is over: the call returns `output`.
Return ==
    /\ pc = "loop"
    /\ ~LoopContinues(block_idx, Len(plaintext_blocks))
    /\ pc' = "returned"
    /\ encrypted' = IF call = "encrypt" THEN output ELSE encrypted
    /\ UNCHANGED <<args, worker_vars, mixing_input, call, plaintext_blocks, block_idx, round, state,
                   priorities, ordered_selectors, key_constants, ciphertext,
                   output, reads>>

\* decrypt_blocks_batch on what the encryption returned, same arguments.
DecryptCall ==
    /\ pc = "returned"
    /\ call = "encrypt"
    /\ call' = "decrypt"
    /\ plaintext_blocks' = output
    /\ output' = NewOutput(Len(output))
    /\ block_idx' = 0
    /\ round' = 0
    /\ reads' = {}
    /\ pc' = "loop"
    /\ UNCHANGED <<args, worker_vars, mixing_input, state, priorities, ordered_selectors, key_constants,
                   ciphertext, encrypted>>

Next ==
    \/ BlockStart
    \/ RoundExecute
    \/ RoundPanic
    \/ RoundSkip
    \/ FinishBlock
    \/ Return
    \/ DecryptCall

Spec == Init /\ [][Next]_vars

\* --------------------------------------------------------------- workers

Workers == {1, 2}

\* The host splits the message after n1 blocks and hands each part to a
\* worker, the second with the block index the part starts at.
StartWorkers ==
    /\ par = "idle"
    /\ call = "encrypt"
    /\ pc \in {"returned", "panicked"}
    /\ \E n1 \in 0..num_blocks(Len(message)) :
        /\ w_input' = <<Slice(message, 0, n1 * BLOCK_SIZE),
                        Slice(message, n1 * BLOCK_SIZE, Len(message))>>
        /\ w_start' = <<start_block_number, start_block_number + n1>>
    /\ w_idx' = <<0, 0>>
    /\ w_out' = <<NewOutput(0), NewOutput(0)>>
    /\ w_pc' = <<"loop", "loop">>
    /\ par' = "running"
    /\ UNCHANGED <<args, seq_vars, w_state>>

\* Worker w runs one iteration of its block loop.
WorkerBlock(w) ==
    /\ w_pc[w] = "loop"
    /\ LoopContinues(w_idx[w], Len(w_input[w]))
    /\ ~BlockPanics(overflow_checks,
                    order_selectors(selectors, key, iv, w_start[w] + w_idx[w]),
                    sboxes, round_keys)
    /\ \E done \in {LoopBody(w_state[w], w_input[w], w_idx[w], w_start[w], key, iv,
                            key_material_registers, selectors, sboxes, round_keys)} :
           /\ w_state' = [w_state EXCEPT ![w] = done.state]
           /\ w_out' = [w_out EXCEPT ![w] = w_out[w] \o done.ciphertext]
    /\ w_idx' = [w_idx EXCEPT ![w] = w_idx[w] + 1]
    /\ UNCHANGED <<args, seq_vars, par, w_input, w_start, w_pc>>

\* Worker w panics in a round of its next block.
WorkerPanic(w) ==
    /\ w_pc[w] = "loop"
    /\ LoopContinues(w_idx[w], Len(w_input[w]))
    /\ BlockPanics(overflow_checks,
                   order_selectors(selectors, key, iv, w_start[w] + w_idx[w]),
                   sboxes, round_keys)
    /\ w_pc' = [w_pc EXCEPT ![w] = "panicked"]
    /\ UNCHANGED <<args, seq_vars, par, w_input, w_start, w_idx, w_state, w_out>>

WorkerReturn(w) ==
    /\ w_pc[w] = "loop"
    /\ ~LoopContinues(w_idx[w], Len(w_input[w]))
    /\ w_pc' = [w_pc EXCEPT ![w] = "returned"]
    /\ UNCHANGED <<args, seq_vars, par, w_input, w_start, w_idx, w_state, w_out>>

InitPar == \E c \in SplitInputs : InitWith(c)

NextPar ==
    \/ BlockStart
    \/ RoundExecute
    \/ RoundPanic
    \/ RoundSkip
    \/ FinishBlock
    \/ Return
    \/ StartWorkers
    \/ \E w \in Workers : WorkerBlock(w)
    \/ \E w \in Workers : WorkerPanic(w)
    \/ \E w \in Workers : WorkerReturn(w)

SpecPar == InitPar /\ [][NextPar]_vars

\* ------------------------------------------------------------- properties

\* C4: order_selectors returns a list of the same length holding the same
\* multiset of values as the selector list it is given: nothing is added,
\* removed or duplicated.
C4_OrderIsPermutation ==
    pc = "rounds" =>
        LET Count(list, v) == Cardinality({n \in 1..Len(list) : list[n] = v})
            Values(list) == {list[n] : n \in 1..Len(list)}
        IN  /\ Len(ordered_selectors) = Len(selectors)
            /\ Values(ordered_selectors) = Values(selectors)
            /\ \A v \in Values(selectors) :
                   Count(ordered_selectors, v) = Count(selectors, v)

\* A block whose selector list repeats a value has been ordered, and the
\* order is not the order of the input.
C4_Witness ==
    /\ pc = "rounds"
    /\ Len(selectors) > Cardinality({selectors[n] : n \in 1..Len(selectors)})
    /\ ordered_selectors # selectors

\* The priority p_i of input position i: the little-endian u32 at offset 4*i of
\* the priority stream of the block.
PriorityOf(i) ==
    LET seed == shake256_hash(key \o iv \o to_be_bytes(block_number)
                              \o DOMAIN_PRIORITY, 32)
        stream == chacha20_generate(seed, Len(selectors) * 4)
    IN  <<At(stream, 4 * i + 3) * 256 + At(stream, 4 * i + 2),
          At(stream, 4 * i + 1) * 256 + At(stream, 4 * i)>>

\* C5: the output of order_selectors lists the selectors in non-decreasing
\* order of their priorities p_i, and positions i < j of equal priority keep
\* their order: the selector of position i comes first.
C5_StablePriorityOrder ==
    pc = "rounds" =>
        LET count == Len(selectors)
            position(n) == priorities[n][2]
        IN  /\ Len(priorities) = count
            /\ Len(ordered_selectors) = count
            /\ {position(n) : n \in 1..count} = 0..(count - 1)
            /\ \A n \in 1..count :
                   /\ priorities[n][1] = PriorityOf(position(n))
                   /\ ordered_selectors[n] = At(selectors, position(n))
            /\ \A m, n \in 1..count :
                   m < n =>
                       /\ ~U32Less(PriorityOf(position(n)), PriorityOf(position(m)))
                       /\ PriorityOf(position(m)) = PriorityOf(position(n))
                              => position(m) < position(n)

\* Two positions of equal priority and different selectors, and a third
\* position of another priority that the sort has moved behind or before them.
C5_Witness ==
    /\ pc = "rounds"
    /\ \E i, j \in 0..(Len(selectors) - 1) :
           /\ i < j
           /\ PriorityOf(i) = PriorityOf(j)
           /\ At(selectors, i) # At(selectors, j)
    /\ \E n \in 1..Len(priorities) : priorities[n][2] # n - 1

\* The arguments of the degenerate vector: 448 zero bytes of key material and
\* no selector.
DegenerateArguments ==
    /\ key_material_registers = Zeros(REGISTER_COUNT * REGISTER_SIZE)
    /\ selectors = << >>

\* C7: with 448 zero bytes of key material and no selector, all 7 registers
\* and the accumulator are all-zero and accumulator_sum is 0 after each of the
\* 24 rounds, and the ciphertext of a block of 32 zero bytes at block index 0
\* is the hash of 448 zero bytes, 128 zero bytes, 8 zero bytes and the
\* keystream tag, whatever the key, the iv, the S-boxes and the round keys.
C7_DegenerateVector ==
    DegenerateArguments =>
        /\ pc = "rounds" =>
               /\ \A i \in 0..(REGISTER_COUNT - 1) :
                      \A j \in 0..(REGISTER_SIZE - 1) : state.registers[i][j] = 0
               /\ \A j \in 0..(ACCUMULATOR_SIZE - 1) : state.accumulator[j] = 0
               /\ state.accumulator_sum = 0
        /\ ( /\ pc = "loop"
             /\ block_idx > 0
             /\ start_block_number + block_idx - 1 = 0
             /\ Slice(plaintext_blocks, 0, BLOCK_SIZE) = Zeros(BLOCK_SIZE) )
           => ciphertext =
                  shake256_hash(Zeros(448) \o Zeros(128) \o Zeros(8)
                                \o DOMAIN_KEYSTREAM, 32)

\* The degenerate block at index 0 has been encrypted, all 24 rounds executed,
\* under a key, S-boxes and round keys that are not the trivial ones.
C7_Witness ==
    /\ DegenerateArguments
    /\ pc = "loop"
    /\ block_idx = 1
    /\ start_block_number = 0
    /\ Slice(plaintext_blocks, 0, BLOCK_SIZE) = Zeros(BLOCK_SIZE)
    /\ Len(ciphertext) = BLOCK_SIZE
    /\ \/ key # << >>
       \/ sboxes = SboxTable("full")
       \/ round_keys = RoundKeyTable("full")

\* The round that has just returned was executed (its table slices in range).
RoundWasExecuted ==
    /\ pc = "rounds"
    /\ round > 0
    /\ RoundInRange(round - 1, sboxes, round_keys)

\* C8: the inter-round mixing of an executed round updates the registers in
\* place for i = 0..6 in that order, so with o the registers after the
\* selectors, n_i = o_i ^ o_(i+1) ^ o_(i+2) for i = 0..4, n5 = o5 ^ o6 ^ n0
\* and n6 = o6 ^ n0 ^ n1; this differs from XOR-ing an unmutated snapshot
\* (o5 ^ o6 ^ o0 and o6 ^ o0 ^ o1) whenever o1 differs from o2 or from o3.
C8_SequentialDiffusion ==
    RoundWasExecuted =>
        LET o == mixing_input
            n == state.registers
            Bytes == 0..(REGISTER_SIZE - 1)
        IN  /\ \A i \in 0..4 : \A j \in Bytes :
                   n[i][j] = Xor(Xor(o[i][j], o[i + 1][j]), o[i + 2][j])
            /\ \A j \in Bytes : n[5][j] = Xor(Xor(o[5][j], o[6][j]), n[0][j])
            /\ \A j \in Bytes : n[6][j] = Xor(Xor(o[6][j], n[0][j]), n[1][j])
            /\ (o[1] # o[2] \/ o[1] # o[3]) =>
                   \E j \in Bytes :
                       \/ n[5][j] # Xor(Xor(o[5][j], o[6][j]), o[0][j])
                       \/ n[6][j] # Xor(Xor(o[6][j], o[0][j]), o[1][j])

\* An executed round whose selectors have acted and whose mixing found
\* registers 1 and 2 different.
C8_Witness ==
    /\ RoundWasExecuted
    /\ ordered_selectors # << >>
    /\ state.accumulator_sum > 0
    /\ mixing_input[1] # mixing_input[2]

\* The step that ends a block: keystream, XOR, feedback, append.
FeedbackStep == pc = "rounds" /\ pc' = "loop"

\* C10: the feedback shift (i*37) mod 256 is 0 for register 0 and at least 8
\* for registers 1..6, so apply_ciphertext_feedback XORs the unmodified byte
\* ciphertext[j mod 32] into registers[i][j] for every i and j, leaves
\* accumulator and accumulator_sum as they are, and applied a second time
\* with the same block restores the registers.
C10_FeedbackNeverShifts ==
    [][FeedbackStep =>
        /\ (0 * 37) % 256 = 0
        /\ \A i \in 1..(REGISTER_COUNT - 1) : (i * 37) % 256 >= 8
        /\ \A i \in 0..(REGISTER_COUNT - 1) : \A j \in 0..(REGISTER_SIZE - 1) :
               state'.registers[i][j] =
                   Xor(state.registers[i][j], At(ciphertext', j % BLOCK_SIZE))
        /\ state'.accumulator = state.accumulator
        /\ state'.accumulator_sum = state.accumulator_sum
        /\ apply_ciphertext_feedback(state', ciphertext').registers = state.registers
    ]_vars

\* The feedback of a ciphertext block with bytes that a shift would change has
\* been applied to a state the selectors have worked on.
C10_Witness ==
    /\ pc = "loop"
    /\ block_idx > 0
    /\ state.accumulator_sum > 0
    /\ \E j \in 1..Len(ciphertext) : Shl8(ciphertext[j], 5) # ciphertext[j]
    /\ \E i \in 0..(REGISTER_COUNT - 1) : \E j \in 0..(REGISTER_SIZE - 1) :
           state.registers[i][j] # 0

\* C9: for every 16-bit selector, those >= 32768 included, the round function
\* computes temp = (sel * 2) & 0xFFFF by truncation to 16 bits and multiplies
\* by its low byte (2*sel) mod 256, and the step completes without an
\* arithmetic-overflow failure.
C9_DoublingCompletes ==
    /\ pc # "panicked"
    /\ \A n \in 1..Len(ordered_selectors) :
           /\ Temp(ordered_selectors[n]) = (2 * ordered_selectors[n]) % 65536
           /\ Temp(ordered_selectors[n]) % 256 = (2 * ordered_selectors[n]) % 256

\* What holds of the doubling in every build: when the step completes, temp
\* is the truncated product; the step fails only in a build with overflow
\* checks and only on a selector >= 32768.
DoublingUnlessChecked ==
    /\ \A n \in 1..Len(ordered_selectors) :
           Temp(ordered_selectors[n]) = (2 * ordered_selectors[n]) % 65536
    /\ pc = "panicked" =>
           /\ overflow_checks
           /\ \E n \in 1..Len(selectors) : selectors[n] >= 32768

\* C1: for all arguments and every plaintext whose length is a multiple of 32,
\* decrypt_blocks_batch on the result of encrypt_blocks_batch, same arguments,
\* returns the plaintext.
C1_RoundTrip ==
    Len(message) % BLOCK_SIZE = 0 =>
        /\ pc # "panicked"
        /\ (call = "decrypt" /\ pc = "returned") => output = message

\* The round trip of the calls that do not fail.
RoundTripUnlessPanic ==
    (Len(message) % BLOCK_SIZE = 0 /\ call = "decrypt" /\ pc = "returned")
        => output = message

\* C2: for every input length n, encrypt_blocks_batch returns exactly
\* floor(n/32)*32 bytes without raising an error, and the trailing n mod 32
\* bytes are never read into a block.
C2_Truncation ==
    LET whole == (Len(plaintext_blocks) \div 32) * 32
    IN  /\ pc # "panicked"
        /\ pc = "returned" => Len(output) = whole
        /\ reads \subseteq 0..(whole - 1)

\* The truncation of the calls that do not fail.
TruncationUnlessPanic ==
    LET whole == (Len(plaintext_blocks) \div 32) * 32
    IN  /\ pc = "returned" => Len(output) = whole
        /\ reads \subseteq 0..(whole - 1)

\* execute_round_wasm on a round key of 63 bytes, and on an S-box of 255
\* entries, leaves the state it is given as it is.
UndersizedCallIsNoOp ==
    pc = "rounds" =>
        /\ execute_round_wasm(state, ordered_selectors, SboxOf(0, IdentitySboxes),
                              Zeros(REGISTER_SIZE - 1), key_constants) = state
        /\ execute_round_wasm(state, ordered_selectors, Zeros(SBOX_SIZE - 1),
                              Zeros(REGISTER_SIZE), key_constants) = state

\* A round of the batch whose S-box slice or round-key slice is not inside the
\* buffer leaves the state as it is and the loop goes on to the next round.
OutOfRangeRoundSkipped ==
    ( /\ pc = "rounds"
      /\ round < ROUNDS
      /\ ~RoundInRange(round, sboxes, round_keys) )
    => /\ state' = state
       /\ round' = round + 1
       /\ pc' = "rounds"

\* The tables of the call leave some round without its slices.
SomeRoundOutOfRange ==
    \E r \in 0..(ROUNDS - 1) : ~RoundInRange(r, sboxes, round_keys)

\* C6: execute_round_wasm with a round key shorter than 64 bytes or an S-box
\* of fewer than 256 entries returns without error and leaves the whole state
\* unchanged; in encrypt_blocks_batch a round whose S-box slice or round-key
\* slice does not lie inside the buffer is skipped in this way, every other
\* round still runs and the ciphertext of the block is still produced.
C6_PermissiveSkip ==
    [][ /\ UndersizedCallIsNoOp
        /\ OutOfRangeRoundSkipped
        /\ (SomeRoundOutOfRange /\ pc = "rounds" /\ round < ROUNDS
              /\ RoundInRange(round, sboxes, round_keys))
           => (pc' = "rounds" /\ round' = round + 1)
        /\ (SomeRoundOutOfRange /\ pc = "rounds" /\ round = ROUNDS)
           => (pc' = "loop" /\ Len(ciphertext') = BLOCK_SIZE
                 /\ output' = output \o ciphertext')
      ]_vars

\* The skip of the calls that do not fail.
SkipUnlessPanic ==
    [][ /\ UndersizedCallIsNoOp
        /\ OutOfRangeRoundSkipped
        /\ (SomeRoundOutOfRange /\ pc = "rounds" /\ round < ROUNDS
              /\ RoundInRange(round, sboxes, round_keys))
           => \/ pc' = "rounds" /\ round' = round + 1
              \/ pc' = "panicked"
        /\ (SomeRoundOutOfRange /\ pc = "rounds" /\ round = ROUNDS)
           => (pc' = "loop" /\ Len(ciphertext') = BLOCK_SIZE
                 /\ output' = output \o ciphertext')
      ]_vars

\* ------------------------------------------------- properties of the split

\* Both workers are over, one way or the other.
WorkersDone ==
    /\ par = "running"
    /\ \A w \in Workers : w_pc[w] \in {"returned", "panicked"}

\* C3: a block of the output depends on its input block, the static arguments
\* and its block index only, not on what earlier blocks left in the state: for
\* every block-aligned split P = P1 || P2, encrypt(P, s) is encrypt(P1, s)
\* followed by encrypt(P2, s + len(P1)/32), and two workers on the two parts,
\* in any interleaving, reassembled in block order, produce what the
\* sequential loop produces (and fail when it fails).
C3_BlockIndependence ==
    par = "running" =>
        LET first == Len(w_input[1])
        IN  /\ pc = "returned" =>
                   /\ \A w \in Workers : w_pc[w] # "panicked"
                   /\ w_out[1] = SubSeq(output, 1, Len(w_out[1]))
                   /\ w_out[2] = SubSeq(output, first + 1, first + Len(w_out[2]))
            /\ WorkersDone =>
                   /\ (pc = "panicked") = (\E w \in Workers : w_pc[w] = "panicked")
                   /\ pc = "returned" => w_out[1] \o w_out[2] = output

\* Each of the two workers has encrypted a block of its own and returned, the
\* second one a block the sequential loop reached after the feedback of an
\* earlier block.
C3_Witness ==
    /\ WorkersDone
    /\ pc = "returned"
    /\ \A w \in Workers : w_pc[w] = "returned" /\ Len(w_out[w]) >= BLOCK_SIZE
    /\ w_out[1] # w_out[2]

=============================================================================
